---- MODULE Spec2Model ----
(***************************************************************************)
(* rubygems_api: the synchronous client SyncClient of src/lib.rs.          *)
(*                                                                         *)
(* gem_info(name) joins "<name>.json" onto the fixed base URL, issues one  *)
(* blocking GET, classifies the response by status, decodes the JSON body  *)
(* into a GemInfo and rebuilds that record field by field.  Every caller   *)
(* (thread) runs gem_info as the sequence of steps                         *)
(*   idle -> join -> send -> is404 -> status -> json -> rebuild -> done.   *)
(*                                                                         *)
(* Text is a sequence of symbols.  A JSON value is a tagged record.        *)
(* Option<T> is a sequence of length 0 (None) or 1 (Some).                 *)
(***************************************************************************)
EXTENDS Naturals, Sequences, FiniteSets, TLC

(***************************************************************************)
(* Bounds of the model.                                                    *)
(***************************************************************************)
\* longest package name (in symbols) the URL specification draws
MaxNameLen == 3
\* how many members of the well-formed body are replaced in a response body
MaxMut == 2
\* how many callers share the client in the concurrent specification
NumThreads == 2

None == <<>>
Some(v) == <<v>>

(***************************************************************************)
(* Text.  A name is a sequence over Alphabet; "a" is a letter, "http" the  *)
(* four letters of that scheme name, and ".json" the suffix gem_info       *)
(* appends (a dot and four letters, never a dot segment by itself).        *)
(***************************************************************************)
Letters == {"a", "http"}
Alphabet == Letters \cup {".", "/", "?", "#", ":", "["}
Suffix == <<".json">>

RECURSIVE SeqsUpTo(_, _)
SeqsUpTo(S, n) ==
  IF n = 0 THEN {<<>>}
  ELSE LET shorter == SeqsUpTo(S, n - 1)
       IN shorter \cup {Append(s, c) : s \in shorter, c \in S}

\* index of the first symbol of s that is in set, Len(s) + 1 when there is none
IndexOfAny(s, set) ==
  IF \E i \in 1..Len(s) : s[i] \in set
  THEN CHOOSE i \in 1..Len(s) : s[i] \in set /\ \A j \in 1..(i - 1) : s[j] \notin set
  ELSE Len(s) + 1
Before(s, set) == SubSeq(s, 1, IndexOfAny(s, set) - 1)
From(s, set) == SubSeq(s, IndexOfAny(s, set), Len(s))
Tail1(s) == SubSeq(s, 2, Len(s))
StartsWith(s, c) == Len(s) >= 1 /\ s[1] = c

RECURSIVE SkipSlashes(_)
SkipSlashes(s) == IF StartsWith(s, "/") THEN SkipSlashes(Tail1(s)) ELSE s

(***************************************************************************)
(* reqwest::Url.  path is the list of path segments ("/" before each), or  *)
(* one opaque segment when cannot_be_a_base.                               *)
(***************************************************************************)
MkUrl(scheme, host, path, cab, query, fragment) ==
  [scheme |-> scheme, host |-> host, path |-> path, cannot_be_a_base |-> cab,
   query |-> query, fragment |-> fragment]

\* Url::parse("https://rubygems.org/api/v1/gems/").unwrap()
BaseUrl ==
  MkUrl(<<"https">>, Some(<<"rubygems.org">>),
        << <<"api">>, <<"v1">>, <<"gems">>, <<>> >>, FALSE, None, None)

SpecialSchemes == {<<"http">>, <<"https">>}

UrlOk(u) == [ok |-> TRUE, url |-> Some(u), err |-> ""]
UrlErr(e) == [ok |-> FALSE, url |-> None, err |-> e]

\* the query and fragment of the part of the input that starts at its first "?" or "#"
QueryOf(rem, baseQuery) ==
  IF StartsWith(rem, "?") THEN Some(Before(Tail1(rem), {"#"}))
  ELSE IF StartsWith(rem, "#") THEN baseQuery ELSE None
FragmentOf(rem) ==
  LET h == From(rem, {"#"}) IN IF h = <<>> THEN None ELSE Some(Tail1(h))

Pop(stack) == IF stack = <<>> THEN <<>> ELSE SubSeq(stack, 1, Len(stack) - 1)

\* the path state: p holds no "?" and no "#"; each segment ends at "/" or at the end
RECURSIVE ParsePath(_, _)
ParsePath(stack, p) ==
  LET i == IndexOfAny(p, {"/"})
      seg == SubSeq(p, 1, i - 1)
      last == i > Len(p)
      trailing == IF last THEN << <<>> >> ELSE <<>>
      st == IF seg = <<".", ".">> THEN Pop(stack) \o trailing
            ELSE IF seg = <<".">> THEN stack \o trailing
            ELSE Append(stack, seg)
  IN IF last THEN st ELSE ParsePath(st, SubSeq(p, i + 1, Len(p)))

\* host and port of an authority (the input between "//" and the next "/", "?" or "#")
ParseAuthority(auth, special) ==
  LET c == IndexOfAny(auth, {":"})
      b == IndexOfAny(auth, {"["})
      bracket == b <= Len(auth) /\ b < c
      host == IF bracket THEN auth ELSE SubSeq(auth, 1, c - 1)
      port == IF bracket THEN <<>> ELSE SubSeq(auth, c + 1, Len(auth))
  IN IF host = <<>> /\ (special \/ c <= Len(auth)) THEN [err |-> "EmptyHost", host |-> host]
     ELSE IF bracket /\ b = 1 THEN [err |-> "InvalidIpv6Address", host |-> host]
     ELSE IF bracket THEN [err |-> "InvalidDomainCharacter", host |-> host]
     ELSE IF port # <<>> THEN [err |-> "InvalidPort", host |-> host]
     ELSE [err |-> "", host |-> host]

\* the input after "//": authority, then path, query and fragment
AfterDoubleSlash(scheme, rest) ==
  LET special == scheme \in SpecialSchemes
      auth == Before(rest, {"/", "?", "#"})
      rem == From(rest, {"/", "?", "#"})
      a == ParseAuthority(auth, special)
      tail == From(rem, {"?", "#"})
      path == IF StartsWith(rem, "/") THEN ParsePath(<<>>, Before(Tail1(rem), {"?", "#"}))
              ELSE IF special THEN << <<>> >> ELSE <<>>
  IN IF a.err # "" THEN UrlErr(a.err)
     ELSE UrlOk(MkUrl(scheme, Some(a.host), path, FALSE, QueryOf(tail, None), FragmentOf(tail)))

\* an input that starts with a scheme other than the base's
ParseWithScheme(scheme, rest) ==
  LET tail == From(rest, {"?", "#"})
  IN IF scheme \in SpecialSchemes THEN AfterDoubleSlash(scheme, SkipSlashes(rest))
     ELSE IF StartsWith(rest, "/") /\ StartsWith(Tail1(rest), "/")
          THEN AfterDoubleSlash(scheme, Tail1(Tail1(rest)))
     ELSE IF StartsWith(rest, "/")
          THEN UrlOk(MkUrl(scheme, None, ParsePath(<<>>, Before(Tail1(rest), {"?", "#"})),
                           FALSE, QueryOf(tail, None), FragmentOf(tail)))
     ELSE UrlOk(MkUrl(scheme, None, <<Before(rest, {"?", "#"})>>, TRUE,
                      QueryOf(tail, None), FragmentOf(tail)))

\* an input without a scheme, resolved against base
ParseRelative(base, input) ==
  LET tail == From(input, {"?", "#"})
      p == Before(input, {"?", "#"})
  IN IF StartsWith(input, "/") /\ StartsWith(Tail1(input), "/")
     THEN AfterDoubleSlash(base.scheme, SkipSlashes(input))
     ELSE IF StartsWith(input, "/")
     THEN UrlOk(MkUrl(base.scheme, base.host, ParsePath(<<>>, Tail1(p)), FALSE,
                      QueryOf(tail, None), FragmentOf(tail)))
     ELSE IF p = <<>>
     THEN UrlOk(MkUrl(base.scheme, base.host, base.path, FALSE,
                      QueryOf(tail, base.query), FragmentOf(tail)))
     ELSE UrlOk(MkUrl(base.scheme, base.host, ParsePath(Pop(base.path), p), FALSE,
                      QueryOf(tail, None), FragmentOf(tail)))

\* Url::join
Join(base, input) ==
  LET c == IndexOfAny(input, {":"})
      hasScheme == /\ c <= Len(input) /\ c > 1
                   /\ input[1] \in Letters
                   /\ \A i \in 2..(c - 1) : input[i] \in Letters \cup {"."}
      scheme == SubSeq(input, 1, c - 1)
      rest == SubSeq(input, c + 1, Len(input))
  IN IF hasScheme /\ scheme # base.scheme THEN ParseWithScheme(scheme, rest)
     ELSE IF hasScheme /\ StartsWith(rest, "/") /\ StartsWith(Tail1(rest), "/")
          THEN AfterDoubleSlash(scheme, SkipSlashes(rest))
     ELSE IF hasScheme THEN ParseRelative(base, rest)
     ELSE ParseRelative(base, input)

\* the path of a URL as text
RECURSIVE PathText(_)
PathText(segs) ==
  IF segs = <<>> THEN <<>> ELSE <<"/">> \o segs[1] \o PathText(Tail(segs))

(***************************************************************************)
(* JSON values, as the response body carries them.  Malformed is a body    *)
(* that is not JSON text at all (an empty body included).                  *)
(***************************************************************************)
JNull == [t |-> "null"]
JNum == [t |-> "num"]
JStr(s) == [t |-> "str", s |-> s]
JArr(items) == [t |-> "arr", items |-> items]
JObj(fields) == [t |-> "obj", fields |-> fields]
Malformed == [t |-> "malformed"]
\* what a lookup of a key an object does not hold gives
Absent == [t |-> "absent"]

Ok(v) == [ok |-> TRUE, v |-> v]
Err == [ok |-> FALSE, v |-> <<>>]

(***************************************************************************)
(* #[derive(Deserialize)]: a struct is read from a JSON object by key      *)
(* (unknown keys ignored, a missing key an error unless the field is an    *)
(* Option) or from a JSON array holding exactly its fields in declaration  *)
(* order.                                                                  *)
(***************************************************************************)
IsStruct(j, n) == j.t = "obj" \/ (j.t = "arr" /\ Len(j.items) = n)
Member(j, key, pos) ==
  IF j.t = "obj" THEN (IF key \in DOMAIN j.fields THEN j.fields[key] ELSE Absent)
  ELSE j.items[pos]

DecString(j) == IF j.t = "str" THEN Ok(j.s) ELSE Err
\* Option<T>, given the member j and what T's decoder makes of it
DecOption(j, r) ==
  IF j.t \in {"absent", "null"} THEN Ok(None)
  ELSE IF r.ok THEN Ok(Some(r.v)) ELSE Err
DecVecString(j) ==
  IF j.t = "arr" /\ \A i \in 1..Len(j.items) : DecString(j.items[i]).ok
  THEN Ok([i \in 1..Len(j.items) |-> DecString(j.items[i]).v])
  ELSE Err

DecGemDevDeps(j) ==
  IF ~IsStruct(j, 2) THEN Err
  ELSE LET n == DecString(Member(j, "name", 1))
           r == DecString(Member(j, "requirements", 2))
       IN IF n.ok /\ r.ok THEN Ok([name |-> n.v, requirements |-> r.v]) ELSE Err
DecGemRunDeps(j) ==
  IF ~IsStruct(j, 2) THEN Err
  ELSE LET n == DecString(Member(j, "name", 1))
           r == DecString(Member(j, "requirements", 2))
       IN IF n.ok /\ r.ok THEN Ok([name |-> n.v, requirements |-> r.v]) ELSE Err

DecVecDev(j) ==
  IF j.t = "arr" /\ \A i \in 1..Len(j.items) : DecGemDevDeps(j.items[i]).ok
  THEN Ok([i \in 1..Len(j.items) |-> DecGemDevDeps(j.items[i]).v])
  ELSE Err
DecVecRun(j) ==
  IF j.t = "arr" /\ \A i \in 1..Len(j.items) : DecGemRunDeps(j.items[i]).ok
  THEN Ok([i \in 1..Len(j.items) |-> DecGemRunDeps(j.items[i]).v])
  ELSE Err

DecGemDeps(j) ==
  IF ~IsStruct(j, 2) THEN Err
  ELSE LET dev == Member(j, "development", 1)
           run == Member(j, "runtime", 2)
           d == DecOption(dev, DecVecDev(dev))
           r == DecOption(run, DecVecRun(run))
       IN IF d.ok /\ r.ok THEN Ok([development |-> d.v, runtime |-> r.v]) ELSE Err

DecGemInfo(j) ==
  IF ~IsStruct(j, 12) THEN Err
  ELSE LET name == DecString(Member(j, "name", 1))
           authors == DecString(Member(j, "authors", 2))
           version == DecString(Member(j, "version", 3))
           info == DecOption(Member(j, "info", 4), DecString(Member(j, "info", 4)))
           licenses == DecOption(Member(j, "licenses", 5), DecVecString(Member(j, "licenses", 5)))
           project_uri == DecString(Member(j, "project_uri", 6))
           gem_uri == DecString(Member(j, "gem_uri", 7))
           homepage_uri == DecOption(Member(j, "homepage_uri", 8), DecString(Member(j, "homepage_uri", 8)))
           wiki_uri == DecOption(Member(j, "wiki_uri", 9), DecString(Member(j, "wiki_uri", 9)))
           documentation_uri == DecOption(Member(j, "documentation_uri", 10), DecString(Member(j, "documentation_uri", 10)))
           dependencies == DecGemDeps(Member(j, "dependencies", 11))
           sha == DecString(Member(j, "sha", 12))
       IN IF /\ name.ok /\ authors.ok /\ version.ok /\ info.ok /\ licenses.ok
             /\ project_uri.ok /\ gem_uri.ok /\ homepage_uri.ok /\ wiki_uri.ok
             /\ documentation_uri.ok /\ dependencies.ok /\ sha.ok
          THEN Ok([name |-> name.v, authors |-> authors.v, version |-> version.v,
                   info |-> info.v, licenses |-> licenses.v,
                   project_uri |-> project_uri.v, gem_uri |-> gem_uri.v,
                   homepage_uri |-> homepage_uri.v, wiki_uri |-> wiki_uri.v,
                   documentation_uri |-> documentation_uri.v,
                   dependencies |-> dependencies.v, sha |-> sha.v])
          ELSE Err

(***************************************************************************)
(* The bodies the upstream is drawn from: a well-formed body, that body    *)
(* with up to MaxMut members replaced or removed, the same record as an    *)
(* array, and a body that is not JSON.                                     *)
(***************************************************************************)
Entry(n, r) == JObj([k \in {"name", "requirements"} |-> IF k = "name" THEN JStr(n) ELSE JStr(r)])
Dep1 == Entry("rake", ">= 0")
Dep2 == Entry("rspec", "~> 2.14")
Dep3 == Entry("json", ">= 0")
Deps(dev, run) == JObj([k \in {"development", "runtime"} |-> IF k = "development" THEN dev ELSE run])
DepsOnly(key, v) == JObj([k \in {key} |-> v])

RequiredKeys == {"name", "authors", "version", "project_uri", "gem_uri", "sha"}
OptionalStringKeys == {"info", "homepage_uri", "wiki_uri", "documentation_uri"}
FieldOrder ==
  <<"name", "authors", "version", "info", "licenses", "project_uri", "gem_uri",
    "homepage_uri", "wiki_uri", "documentation_uri", "dependencies", "sha">>

WellFormedFields ==
  [name |-> JStr("ffi"), authors |-> JStr("Wayne Meissner"), version |-> JStr("1.9.25"),
   info |-> JStr("Ruby FFI"), licenses |-> JArr(<<JStr("BSD"), JStr("MIT")>>),
   project_uri |-> JStr("https://rubygems.org/gems/ffi"),
   gem_uri |-> JStr("https://rubygems.org/gems/ffi-1.9.25.gem"),
   homepage_uri |-> JStr("http://wiki.github.com/ffi/ffi"),
   wiki_uri |-> JStr("wiki"), documentation_uri |-> JStr("docs"),
   dependencies |-> Deps(JArr(<<Dep1, Dep2>>), JArr(<<Dep3>>)),
   sha |-> JStr("86fa011857f977254ccf39f507587310f9ade768692d3b840d0ed15f0e2b0f5e")]

\* what a member of the well-formed body may be replaced by
Alternatives(key) ==
  IF key \in RequiredKeys \cup OptionalStringKeys THEN {Absent, JNull, JNum, JStr("")}
  ELSE IF key = "licenses"
  THEN {Absent, JNull, JArr(<<>>), JArr(<<JStr("MIT"), JStr("BSD")>>), JStr("MIT"),
        JArr(<<JStr("MIT"), JNum>>)}
  ELSE {Absent, JNull, JStr("none"),
        JObj(<<>>),
        Deps(JNull, JArr(<<>>)),
        Deps(JArr(<<Dep2, Dep1>>), JNull),
        DepsOnly("runtime", JArr(<<Dep3, Dep1>>)),
        Deps(JArr(<<DepsOnly("name", JStr("rake"))>>), JArr(<<Dep3>>)),
        Deps(JArr(<<Dep1>>), JArr(<<DepsOnly("requirements", JStr(">= 0"))>>)),
        Deps(JArr(<<Entry("", "")>>), JNum),
        Deps(JArr(<<JArr(<<JStr("rake"), JStr(">= 0")>>)>>), JArr(<<Dep3>>)),
        JArr(<<JNull, JArr(<<Dep3>>)>>),
        JArr(<<JNull>>)}

Replace(fields, key, alt) ==
  IF alt = Absent THEN [k \in DOMAIN fields \ {key} |-> fields[k]]
  ELSE [k \in DOMAIN fields \cup {key} |-> IF k = key THEN alt ELSE fields[k]]

RECURSIVE Mutated(_)
Mutated(n) ==
  IF n = 0 THEN {WellFormedFields}
  ELSE LET fewer == Mutated(n - 1)
       IN fewer \cup UNION {{Replace(f, FieldOrder[i], alt) :
                                f \in fewer, alt \in Alternatives(FieldOrder[i])} :
                              i \in 1..Len(FieldOrder)}

ArrayBody == JArr([i \in 1..Len(FieldOrder) |-> WellFormedFields[FieldOrder[i]]])
Bodies == {JObj(f) : f \in Mutated(MaxMut)} \cup {ArrayBody, Malformed}

(***************************************************************************)
(* The upstream's answers.  A response is a status and a body.             *)
(***************************************************************************)
Statuses == {101, 200, 201, 204, 300, 304, 400, 404, 410, 500}
NOT_FOUND == 404
is_success(status) == status \in 200..299
is_client_error(status) == status \in 400..499
is_server_error(status) == status \in 500..599

\* a 1xx, 204 or 304 response carries no body: what the client reads is empty
NoBody(status) == status \in 100..199 \/ status \in {204, 304}
Responses == {r \in [status : Statuses, body : Bodies] : NoBody(r.status) => r.body = Malformed}
FewResponses == [status : {200, 404, 500}, body : {JObj(WellFormedFields), Malformed}]

Names == SeqsUpTo(Alphabet, MaxNameLen)
\* a plain name, one that Url::join refuses and one that joins to a URL without a host
SampleNames == {<<"a">>, <<"/", "/", "[">>, <<"a", ":">>}
Threads == 1..NumThreads

(***************************************************************************)
(* Error, and the Result<GemInfo, Error> of a call.                        *)
(***************************************************************************)
Pending == [kind |-> "", value |-> None, detail |-> ""]
Success(info) == [kind |-> "Ok", value |-> Some(info), detail |-> ""]
Failure(kind, detail) == [kind |-> kind, value |-> None, detail |-> detail]

\* impl From<reqwest::Error> for Error
FromReqwestError(e) == Failure("Http", e)
\* faulty variant: a URL error reported through the Http variant
FromParseErrorAsHttp(e) == Failure("Http", e)
\* impl From<url::ParseError> for Error
FromParseError(e) == Failure("Url", e)

\* faulty variant: the rebuild with version and authors exchanged
ReconstructSwapped(d) ==
  [name |-> d.name, version |-> d.authors, authors |-> d.version, info |-> d.info,
   licenses |-> d.licenses, project_uri |-> d.project_uri, gem_uri |-> d.gem_uri,
   homepage_uri |-> d.homepage_uri, wiki_uri |-> d.wiki_uri,
   documentation_uri |-> d.documentation_uri,
   dependencies |-> d.dependencies, sha |-> d.sha]
\* faulty variant: the rebuild with a placeholder for an empty name
ReconstructDefaultName(d) ==
  [d EXCEPT !.name = IF d.name = "" THEN "unknown" ELSE d.name]
\* the field-by-field rebuild at the end of gem_info
Reconstruct(d) ==
  LET deserialized_gemdeps ==
        [development |-> d.dependencies.development, runtime |-> d.dependencies.runtime]
  IN [name |-> d.name, version |-> d.version, authors |-> d.authors, info |-> d.info,
      licenses |-> d.licenses, project_uri |-> d.project_uri, gem_uri |-> d.gem_uri,
      homepage_uri |-> d.homepage_uri, wiki_uri |-> d.wiki_uri,
      documentation_uri |-> d.documentation_uri,
      dependencies |-> deserialized_gemdeps, sha |-> d.sha]

(***************************************************************************)
(* State.  sync_client is the shared SyncClient; the other variables are   *)
(* per caller: where it is in gem_info, its argument and its locals.       *)
(* gets and trace are history: the URLs this call has sent a GET to, and   *)
(* the steps this call has taken.                                          *)
(***************************************************************************)
VARIABLES sync_client, pc, name, url, res, data, result, gets, trace
vars == <<sync_client, pc, name, url, res, data, result, gets, trace>>

\* SyncClient::new
New == [client |-> "reqwest::Client", base_url |-> BaseUrl]

InitOf(T) ==
  /\ sync_client = New
  /\ pc = [t \in T |-> "idle"]
  /\ name = [t \in T |-> <<>>]
  /\ url = [t \in T |-> None]
  /\ res = [t \in T |-> None]
  /\ data = [t \in T |-> None]
  /\ result = [t \in T |-> Pending]
  /\ gets = [t \in T |-> <<>>]
  /\ trace = [t \in T |-> <<>>]

Goto(t, label) == pc' = [pc EXCEPT ![t] = label]
Did(t, step) == trace' = [trace EXCEPT ![t] = Append(@, step)]
Fail(t, error) == /\ result' = [result EXCEPT ![t] = error]
                  /\ Goto(t, "done")

\* a caller enters gem_info(n)
Call(t, N) ==
  /\ pc[t] = "idle"
  /\ \E n \in N : name' = [name EXCEPT ![t] = n]
  /\ Goto(t, "join")
  /\ UNCHANGED <<sync_client, url, res, data, result, gets, trace>>

\* faulty variant: the join stored back into the client's base_url
JoinStepInPlace(t) ==
  /\ pc[t] = "join"
  /\ Did(t, "join")
  /\ LET r == Join(sync_client.base_url, name[t] \o Suffix)
     IN IF r.ok
        THEN /\ url' = [url EXCEPT ![t] = r.url]
             /\ sync_client' = [sync_client EXCEPT !.base_url = r.url[1]]
             /\ Goto(t, "send")
             /\ UNCHANGED result
        ELSE /\ Fail(t, FromParseError(r.err))
             /\ UNCHANGED <<url, sync_client>>
  /\ UNCHANGED <<name, res, data, gets>>
\* self.base_url.join(&format!("{}.json", &name))?
JoinStep(t) ==
  /\ pc[t] = "join"
  /\ Did(t, "join")
  /\ LET r == Join(sync_client.base_url, name[t] \o Suffix)
     IN IF r.ok
        THEN /\ url' = [url EXCEPT ![t] = r.url]
             /\ Goto(t, "send")
             /\ UNCHANGED result
        ELSE /\ Fail(t, FromParseError(r.err))
             /\ UNCHANGED url
  /\ UNCHANGED <<sync_client, name, res, data, gets>>

\* faulty variant: a transport failure is retried once before it is reported
SendRetry(t, R) ==
  /\ pc[t] = "send"
  /\ LET u == url[t][1]
     IN \/ /\ u.host = None
           /\ Did(t, "send")
           /\ Fail(t, FromReqwestError("builder"))
           /\ UNCHANGED <<res, gets>>
        \/ /\ u.host # None
           /\ gets' = [gets EXCEPT ![t] = Append(@, u)]
           /\ \/ /\ gets[t] = <<>>
                 /\ UNCHANGED <<res, result, pc, trace>>
              \/ /\ gets[t] # <<>>
                 /\ Did(t, "send")
                 /\ Fail(t, FromReqwestError("send"))
                 /\ UNCHANGED res
              \/ /\ \E r \in R : res' = [res EXCEPT ![t] = Some(r)]
                 /\ Did(t, "send")
                 /\ Goto(t, "is404")
                 /\ UNCHANGED result
  /\ UNCHANGED <<sync_client, name, url, data>>
\* self.client.get(url).send()?  A URL without a host is refused before any
\* request goes out; otherwise the GET is sent and either fails in transport or
\* brings back a response.
Send(t, R) ==
  /\ pc[t] = "send"
  /\ Did(t, "send")
  /\ LET u == url[t][1]
     IN \/ /\ u.host = None
           /\ Fail(t, FromReqwestError("builder"))
           /\ UNCHANGED <<res, gets>>
        \/ /\ u.host # None
           /\ gets' = [gets EXCEPT ![t] = Append(@, u)]
           /\ \/ /\ Fail(t, FromReqwestError("send"))
                 /\ UNCHANGED res
              \/ /\ \E r \in R : res' = [res EXCEPT ![t] = Some(r)]
                 /\ Goto(t, "is404")
                 /\ UNCHANGED result
  /\ UNCHANGED <<sync_client, name, url, data>>

\* faulty variant: no 404 test, every response goes on to error_for_status
Is404Skip(t) ==
  /\ pc[t] = "is404"
  /\ Did(t, "is404")
  /\ Goto(t, "status")
  /\ UNCHANGED <<sync_client, name, url, res, data, result, gets>>
\* faulty variant: a response that is not a 404 is decoded without error_for_status
Is404ThenJson(t) ==
  /\ pc[t] = "is404"
  /\ Did(t, "is404")
  /\ IF res[t][1].status = NOT_FOUND
     THEN Fail(t, Failure("NotFound", ""))
     ELSE Goto(t, "json") /\ UNCHANGED result
  /\ UNCHANGED <<sync_client, name, url, res, data, gets>>
\* if res.status() == StatusCode::NOT_FOUND { return Err(Error::NotFound); }
Is404(t) ==
  /\ pc[t] = "is404"
  /\ Did(t, "is404")
  /\ IF res[t][1].status = NOT_FOUND
     THEN Fail(t, Failure("NotFound", ""))
     ELSE Goto(t, "status") /\ UNCHANGED result
  /\ UNCHANGED <<sync_client, name, url, res, data, gets>>

\* res.error_for_status()?
ErrorForStatus(t) ==
  /\ pc[t] = "status"
  /\ Did(t, "error_for_status")
  /\ IF is_client_error(res[t][1].status) \/ is_server_error(res[t][1].status)
     THEN Fail(t, FromReqwestError("status"))
     ELSE Goto(t, "json") /\ UNCHANGED result
  /\ UNCHANGED <<sync_client, name, url, res, data, gets>>

\* let data: T = res.json()?; Ok(data)
Json(t) ==
  /\ pc[t] = "json"
  /\ Did(t, "json")
  /\ LET d == DecGemInfo(res[t][1].body)
     IN IF d.ok
        THEN /\ data' = [data EXCEPT ![t] = Some(d.v)]
             /\ Goto(t, "rebuild")
             /\ UNCHANGED result
        ELSE /\ Fail(t, FromReqwestError("json"))
             /\ UNCHANGED data
  /\ UNCHANGED <<sync_client, name, url, res, gets>>

\* the rest of gem_info: rebuild the record and return it
Rebuild(t) ==
  /\ pc[t] = "rebuild"
  /\ Did(t, "rebuild")
  /\ result' = [result EXCEPT ![t] = Success(Reconstruct(data[t][1]))]
  /\ Goto(t, "done")
  /\ UNCHANGED <<sync_client, name, url, res, data, gets>>

\* the caller has its result; it is free to call again
Return(t) ==
  /\ pc[t] = "done"
  /\ Goto(t, "idle")
  /\ name' = [name EXCEPT ![t] = <<>>]
  /\ url' = [url EXCEPT ![t] = None]
  /\ res' = [res EXCEPT ![t] = None]
  /\ data' = [data EXCEPT ![t] = None]
  /\ result' = [result EXCEPT ![t] = Pending]
  /\ gets' = [gets EXCEPT ![t] = <<>>]
  /\ trace' = [trace EXCEPT ![t] = <<>>]
  /\ UNCHANGED sync_client

NextOf(T, N, R) ==
  \E t \in T :
    \/ Call(t, N)
    \/ JoinStep(t)
    \/ Send(t, R)
    \/ Is404(t)
    \/ ErrorForStatus(t)
    \/ Json(t)
    \/ Rebuild(t)
    \/ Return(t)

\* one caller, a few names, every response
Init == InitOf({1})
Next == NextOf({1}, SampleNames, Responses)
Spec == Init /\ [][Next]_vars

\* one caller, every name, a few responses
InitUrl == InitOf({1})
NextUrl == NextOf({1}, Names, FewResponses)
SpecUrl == InitUrl /\ [][NextUrl]_vars

\* several callers sharing the client
InitConc == InitOf(Threads)
NextConc == NextOf(Threads, SampleNames, FewResponses)
SpecConc == InitConc /\ [][NextConc]_vars

(***************************************************************************)
(* Claims.                                                                 *)
(***************************************************************************)
Callers == DOMAIN pc
Status(t) == res[t][1].status
Body(t) == res[t][1].body
Failed(t) == result[t].kind \in {"Http", "Url", "NotFound"}
Has(seq, x) == \E i \in 1..Len(seq) : seq[i] = x
Count(seq, x) == Cardinality({i \in 1..Len(seq) : seq[i] = x})

\* C1: a call whose GET receives a response with status 404 fails with
\* Error::NotFound and nothing else, whatever the body holds: after the 404
\* test the call is over, and its result is NotFound with no record.
C1_NotFound ==
  \A t \in Callers :
    (res[t] # None /\ Status(t) = 404) =>
      /\ pc[t] \in {"is404", "done"}
      /\ data[t] = None
      /\ pc[t] = "done" => result[t] = Failure("NotFound", "")
C1_Witness ==
  \E t \in Callers :
    /\ pc[t] = "done" /\ res[t] # None /\ Status(t) = 404
    /\ DecGemInfo(Body(t)).ok

\* C2: a call whose GET receives a response with a status outside 200..299
\* other than 404 fails with Error::Http, and the body of that response is never
\* decoded and never returned as a success.
C2_NonSuccessIsHttp ==
  \A t \in Callers :
    (res[t] # None /\ ~is_success(Status(t)) /\ Status(t) # 404) =>
      /\ data[t] = None
      /\ pc[t] = "done" => result[t].kind = "Http"

\* The response contract of the upstream: the JSON shape a body must have.
ContractString(j) == j.t = "str"
ContractOptString(j) == j.t \in {"str", "null", "absent"}
ContractStrings(j) ==
  j.t \in {"null", "absent"}
  \/ (j.t = "arr" /\ \A i \in 1..Len(j.items) : ContractString(j.items[i]))
ContractEntry(j) ==
  /\ j.t = "obj"
  /\ ContractString(Member(j, "name", 1))
  /\ ContractString(Member(j, "requirements", 2))
ContractEntries(j) ==
  j.t \in {"null", "absent"}
  \/ (j.t = "arr" /\ \A i \in 1..Len(j.items) : ContractEntry(j.items[i]))
ContractDeps(j) ==
  /\ j.t = "obj"
  /\ ContractEntries(Member(j, "development", 1))
  /\ ContractEntries(Member(j, "runtime", 2))
Conforms(b) ==
  /\ b.t = "obj"
  /\ \A k \in RequiredKeys : ContractString(Member(b, k, 1))
  /\ \A k \in OptionalStringKeys : ContractOptString(Member(b, k, 1))
  /\ ContractStrings(Member(b, "licenses", 1))
  /\ ContractDeps(Member(b, "dependencies", 1))

\* C3: a call whose GET receives a 2xx response whose body is malformed JSON,
\* lacks a required member or has a member of another type than the contract's
\* fails with Error::Http: it never gets a decoded record and never returns one.
C3_BadBodyIsHttp ==
  \A t \in Callers :
    (res[t] # None /\ is_success(Status(t)) /\ ~Conforms(Body(t))) =>
      /\ data[t] = None
      /\ pc[t] = "done" => (result[t].kind = "Http" /\ result[t].value = None)

C5_FixedTarget ==
  \A t \in Callers :
    \A i \in 1..Len(gets[t]) :
      LET u == gets[t][i]
      IN /\ u.scheme = <<"https">>
         /\ u.host = Some(<<"rubygems.org">>)
         /\ ~u.cannot_be_a_base
         /\ PathText(u.path) = <<"/", "api", "/", "v1", "/", "gems", "/">> \o name[t] \o Suffix
         /\ u.query = None
         /\ u.fragment = None

\* the member of the payload that field number i of GemInfo is read from
Payload(b, i) == Member(b, FieldOrder[i], i)
SameStrings(vec, j) ==
  /\ j.t = "arr"
  /\ Len(j.items) = Len(vec)
  /\ \A i \in 1..Len(vec) : j.items[i] = JStr(vec[i])
SameEntries(vec, j) ==
  /\ j.t = "arr"
  /\ Len(j.items) = Len(vec)
  /\ \A i \in 1..Len(vec) :
       /\ Member(j.items[i], "name", 1) = JStr(vec[i].name)
       /\ Member(j.items[i], "requirements", 2) = JStr(vec[i].requirements)
\* an optional field is None exactly when the payload omits it or gives null
NoneIffOmitted(opt, j) == opt = None <=> j.t \in {"absent", "null"}

\* C6: the GemInfo a call returns is the decoded payload, field for field: the
\* rebuild changes nothing, every required field is the payload's string, every
\* optional field is None exactly when the payload omits it or gives null, an
\* empty array stays a present empty sequence, and sequences keep their order.
C6_ResultIsPayload ==
  \A t \in Callers :
    (pc[t] = "done" /\ result[t].kind = "Ok") =>
      LET g == result[t].value[1]
          b == Body(t)
          deps == Payload(b, 11)
      IN /\ result[t].value = data[t]
         /\ \A i \in {1, 2, 3, 6, 7, 12} : JStr(g[FieldOrder[i]]) = Payload(b, i)
         /\ \A i \in {4, 8, 9, 10} :
              /\ NoneIffOmitted(g[FieldOrder[i]], Payload(b, i))
              /\ g[FieldOrder[i]] # None => JStr(g[FieldOrder[i]][1]) = Payload(b, i)
         /\ NoneIffOmitted(g.licenses, Payload(b, 5))
         /\ g.licenses # None => SameStrings(g.licenses[1], Payload(b, 5))
         /\ NoneIffOmitted(g.dependencies.development, Member(deps, "development", 1))
         /\ g.dependencies.development # None =>
              SameEntries(g.dependencies.development[1], Member(deps, "development", 1))
         /\ NoneIffOmitted(g.dependencies.runtime, Member(deps, "runtime", 2))
         /\ g.dependencies.runtime # None =>
              SameEntries(g.dependencies.runtime[1], Member(deps, "runtime", 2))
C6_Witness ==
  \E t \in Callers :
    /\ pc[t] = "done" /\ result[t].kind = "Ok"
    /\ result[t].value[1].licenses = Some(<<>>)
    /\ Len(result[t].value[1].dependencies.development[1]) = 2

C8_Independent ==
  /\ sync_client = New
  /\ \A t, u \in Callers :
       (/\ pc[t] = "done" /\ pc[u] = "done"
        /\ name[t] = name[u] /\ gets[t] = gets[u] /\ res[t] = res[u]) =>
         result[t] = result[u]
C8_Witness ==
  \E t, u \in Callers :
    /\ t # u
    /\ pc[t] = "done" /\ pc[u] = "done"
    /\ name[t] = name[u] /\ res[t] = res[u]
    /\ result[t].kind = "Ok" /\ result[u].kind = "Ok"

\* C9 as stated: every successful call, whatever 2xx response it received,
\* returns a GemInfo whose name is a non-empty string.
C9_NameNonEmpty ==
  \A t \in Callers :
    (pc[t] = "done" /\ result[t].kind = "Ok" /\ is_success(Status(t))) =>
      result[t].value[1].name # ""

\* C9 as amended: every successful call returns a GemInfo whose name is exactly
\* the string the payload gives for name, so it is empty exactly when the
\* payload's name is the empty string.
C9_NameIsPayloadName ==
  \A t \in Callers :
    (pc[t] = "done" /\ result[t].kind = "Ok") =>
      /\ Payload(Body(t), 1).t = "str"
      /\ result[t].value[1].name = Payload(Body(t), 1).s
C9_Witness ==
  \E t \in Callers :
    /\ pc[t] = "done" /\ result[t].kind = "Ok"
    /\ is_success(Status(t))
    /\ result[t].value[1].name = ""

StepOrder == <<"join", "send", "is404", "error_for_status", "json", "rebuild">>

\* C10: the steps of a call happen in the order URL resolution, GET, 404 test,
\* error-status test, JSON decode, result: no GET without a URL, no status test
\* without a response (a send failure is Error::Http with no status test), and
\* no decode of a response that did not pass both status tests.
C10_StepOrder ==
  \A t \in Callers :
    /\ Len(trace[t]) <= Len(StepOrder)
    /\ trace[t] = SubSeq(StepOrder, 1, Len(trace[t]))
    /\ url[t] = None => (gets[t] = <<>> /\ ~Has(trace[t], "send"))
    /\ Has(trace[t], "is404") => res[t] # None
    /\ (Has(trace[t], "send") /\ res[t] = None) =>
         (result[t].kind = "Http" /\ ~Has(trace[t], "is404"))
    /\ Has(trace[t], "json") =>
         /\ Status(t) # 404
         /\ ~is_client_error(Status(t))
         /\ ~is_server_error(Status(t))
C10_Witness ==
  \E t \in Callers : pc[t] = "done" /\ trace[t] = StepOrder

====
